---- MODULE Spec2Model ----
(***************************************************************************)
(* Date Copy Tool (date_copy_osx.py): a Tk window with three buttons and   *)
(* the keys 1, 2, 3 that put yesterday's, today's or tomorrow's date on    *)
(* the clipboard, and an Options menu with button sizes and a leading and  *)
(* a trailing space.  Strings are sequences of one-character strings.      *)
(***************************************************************************)
EXTENDS Integers, Sequences, FiniteSets, TLC

VARIABLES
    clipboard,       \* content of the system clipboard
    leading_check,   \* Menubar.leading_check  (tk.BooleanVar)
    trailing_check,  \* Menubar.trailing_check (tk.BooleanVar)
    button_size,     \* Menubar.button_size    (tk.StringVar of the radio buttons)
    padding,         \* padding option of the three date buttons
    keybinds,        \* root bindings: key -> option handed to copy_date
    focus,           \* which date button has the keyboard focus (0: none)
    output,          \* Dates.self.output
    stderr,          \* what the process wrote to sys.stderr
    running,         \* the process is alive and root.mainloop() is dispatching
    today,           \* the local calendar date the date command sees
    ticks,           \* midnights passed since the start
    lastEvent,       \* the event the main loop dispatched last
    lastCall,        \* option and outcome of the copy_date call of that event
    clipboardBefore  \* the clipboard as it was when that event arrived

vars == <<clipboard, leading_check, trailing_check, button_size, padding,
          keybinds, focus, output, stderr, running, today, ticks,
          lastEvent, lastCall, clipboardBefore>>

(***************************************************************************)
(* Bounds                                                                  *)
(***************************************************************************)
\* midnights that may pass while the program runs
MaxTicks == 1

\* the dates the program may be started on
RefDates ==
    { [y |-> 2016, m |-> 12, d |-> 23], [y |-> 2016, m |-> 12, d |-> 31],
      [y |-> 2017, m |-> 1,  d |-> 1],  [y |-> 2016, m |-> 2,  d |-> 28],
      [y |-> 2019, m |-> 2,  d |-> 28], [y |-> 2017, m |-> 1,  d |-> 9],
      [y |-> 2100, m |-> 2,  d |-> 28], [y |-> 2000, m |-> 2,  d |-> 28] }

\* what another program may have left on the clipboard before the start
OtherText == <<"f", "o", "o">>

\* options a direct caller of copy_date may pass
CallOptions == 0 .. 4

\* the years whose every day is tried as the current date
FirstYear == 2015

YearSpan == 4

(***************************************************************************)
(* The calendar, as the date command computes it                           *)
(***************************************************************************)
IsLeap(y) == (y % 4 = 0 /\ y % 100 # 0) \/ (y % 400 = 0)

DaysInMonth(y, m) ==
    IF m = 2 THEN (IF IsLeap(y) THEN 29 ELSE 28)
    ELSE IF m \in {4, 6, 9, 11} THEN 30
    ELSE 31

Date(y, m, d) == [y |-> y, m |-> m, d |-> d]

NextDay(dt) ==
    IF dt.d < DaysInMonth(dt.y, dt.m) THEN Date(dt.y, dt.m, dt.d + 1)
    ELSE IF dt.m < 12 THEN Date(dt.y, dt.m + 1, 1)
    ELSE Date(dt.y + 1, 1, 1)

PrevDay(dt) ==
    IF dt.d > 1 THEN Date(dt.y, dt.m, dt.d - 1)
    ELSE IF dt.m > 1 THEN Date(dt.y, dt.m - 1, DaysInMonth(dt.y, dt.m - 1))
    ELSE Date(dt.y - 1, 12, 31)

(***************************************************************************)
(* strftime conversions of  date +"%d %b %Y"                               *)
(***************************************************************************)
Digit(n) == <<"0", "1", "2", "3", "4", "5", "6", "7", "8", "9">>[n + 1]

RECURSIVE DecStr(_)
DecStr(n) == IF n < 10 THEN <<Digit(n)>>
             ELSE Append(DecStr(n \div 10), Digit(n % 10))

\* %d : day of the month as a decimal number, 01-31
FmtDayBare(d) == DecStr(d)

FmtDay(d) == IF d < 10 THEN <<"0">> \o DecStr(d) ELSE DecStr(d)

\* %b : abbreviated month name (C / English locale)
MonthAbbr ==
    << <<"J","a","n">>, <<"F","e","b">>, <<"M","a","r">>, <<"A","p","r">>,
       <<"M","a","y">>, <<"J","u","n">>, <<"J","u","l">>, <<"A","u","g">>,
       <<"S","e","p">>, <<"O","c","t">>, <<"N","o","v">>, <<"D","e","c">> >>

FmtMonth(m) == MonthAbbr[m]

\* %Y : year with century as a decimal number
FmtYear(y) == DecStr(y)

\* what the date command prints for a date: "%d %b %Y" and a newline
Strftime(dt) ==
    FmtDay(dt.d) \o <<" ">> \o FmtMonth(dt.m) \o <<" ">> \o FmtYear(dt.y)
        \o <<"\n">>

\* the -v adjustment of the three commands: -v-1d, none, -v+1d
AdjustNoRoll(option, now) ==
    IF option = 1 THEN Date(now.y, now.m, now.d - 1)
    ELSE IF option = 3 THEN Date(now.y, now.m, now.d + 1)
    ELSE now

Adjust(option, now) ==
    IF option = 1 THEN PrevDay(now)
    ELSE IF option = 3 THEN NextDay(now)
    ELSE now

\* subprocess.check_output(cmd, shell=True) of the command of an option
DateCmd(option, now) == Strftime(Adjust(option, now))

\* .decode("utf-8")[:-1]
DropLast(s) == SubSeq(s, 1, Len(s) - 1)

(***************************************************************************)
(* Dates.copy_date                                                         *)
(***************************************************************************)
clipboard_keep(cb) == cb

clipboard_clear(cb) == <<>>

clipboard_append(cb, s) == cb \o s

\* lines 122-126: the trailing space first, then the leading one
SpacingBoth(s, leading, trailing) ==
    LET t == IF trailing \/ leading THEN s \o <<" ">> ELSE s
    IN  IF leading THEN <<" ">> \o t ELSE t

Spacing(s, leading, trailing) ==
    LET t == IF trailing THEN s \o <<" ">> ELSE s
    IN  IF leading THEN <<" ">> \o t ELSE t

ValidOptions == {1, 2, 3}

InvalidArgMsg == "copy_date was called with an invalid arg"

\* the traceback Tk's report_callback_exception prints for an exception
CalledProcessErrorMsg == "subprocess.CalledProcessError"

NoCall == [option |-> 0, result |-> "none"]

copy_date_set_flag(option) ==
    LET cleared == clipboard_clear(clipboard) IN
    /\ IF option \in ValidOptions
       THEN /\ focus' = option
            /\ \E ok \in BOOLEAN :
                 IF ok
                 THEN LET out == Spacing(DropLast(DateCmd(option, today)),
                                         leading_check, trailing_check)
                      IN  /\ output' = out
                          /\ clipboard' = clipboard_append(cleared, out)
                          /\ lastCall' = [option |-> option,
                                          result |-> "copied"]
                          /\ stderr' = stderr
                 ELSE /\ clipboard' = cleared
                      /\ output' = output
                      /\ stderr' = stderr \cup {CalledProcessErrorMsg}
                      /\ lastCall' = [option |-> option,
                                      result |-> "date_failed"]
            /\ running' = running
       ELSE /\ clipboard' = cleared
            /\ stderr' = stderr \cup {InvalidArgMsg}
            /\ running' = FALSE
            /\ lastCall' = [option |-> option, result |-> "invalid"]
            /\ UNCHANGED <<focus, output>>
    /\ trailing_check' = FALSE
    /\ UNCHANGED <<leading_check, button_size, padding, keybinds, today,
                   ticks>>

copy_date(option) ==
    LET cleared == clipboard_clear(clipboard) IN
    /\ IF option \in ValidOptions
       THEN /\ focus' = option
            /\ \E ok \in BOOLEAN :
                 IF ok
                 THEN LET out == Spacing(DropLast(DateCmd(option, today)),
                                         leading_check, trailing_check)
                      IN  /\ output' = out
                          /\ clipboard' = clipboard_append(cleared, out)
                          /\ lastCall' = [option |-> option,
                                          result |-> "copied"]
                          /\ stderr' = stderr
                 ELSE \* check_output raises CalledProcessError
                      /\ clipboard' = cleared
                      /\ output' = output
                      /\ stderr' = stderr \cup {CalledProcessErrorMsg}
                      /\ lastCall' = [option |-> option,
                                      result |-> "date_failed"]
            /\ running' = running
       ELSE \* sys.stderr.write(...); sys.exit(1)
            /\ clipboard' = cleared
            /\ stderr' = stderr \cup {InvalidArgMsg}
            /\ running' = FALSE
            /\ lastCall' = [option |-> option, result |-> "invalid"]
            /\ UNCHANGED <<focus, output>>
    /\ UNCHANGED <<leading_check, trailing_check, button_size, padding,
                   keybinds, today, ticks>>

(***************************************************************************)
(* The events root.mainloop() dispatches                                   *)
(***************************************************************************)
\* command=lambda: self.copy_date(N) of the three buttons
ButtonPress(n) ==
    /\ running
    /\ copy_date(n)
    /\ lastEvent' = [kind |-> "button", n |-> n]
    /\ clipboardBefore' = clipboard

KeyPressNext(k) ==
    /\ running
    /\ k \in DOMAIN keybinds
    /\ copy_date(keybinds[k] + 1)
    /\ lastEvent' = [kind |-> "key", n |-> k]
    /\ clipboardBefore' = clipboard

\* root.bind("N", lambda x: self.copy_date(N))
KeyPress(k) ==
    /\ running
    /\ k \in DOMAIN keybinds
    /\ copy_date(keybinds[k])
    /\ lastEvent' = [kind |-> "key", n |-> k]
    /\ clipboardBefore' = clipboard

ToggleLeadingClears ==
    /\ running
    /\ leading_check' = ~leading_check
    /\ clipboard' = <<>>
    /\ lastEvent' = [kind |-> "leading", n |-> 0]
    /\ clipboardBefore' = clipboard
    /\ lastCall' = NoCall
    /\ UNCHANGED <<trailing_check, button_size, padding, keybinds,
                   focus, output, stderr, running, today, ticks>>

\* the 'Leading Space' checkbutton
ToggleLeading ==
    /\ running
    /\ leading_check' = ~leading_check
    /\ lastEvent' = [kind |-> "leading", n |-> 0]
    /\ clipboardBefore' = clipboard
    /\ lastCall' = NoCall
    /\ UNCHANGED <<clipboard, trailing_check, button_size, padding, keybinds,
                   focus, output, stderr, running, today, ticks>>

\* the 'Trailing Space' checkbutton
ToggleTrailing ==
    /\ running
    /\ trailing_check' = ~trailing_check
    /\ lastEvent' = [kind |-> "trailing", n |-> 0]
    /\ clipboardBefore' = clipboard
    /\ lastCall' = NoCall
    /\ UNCHANGED <<clipboard, leading_check, button_size, padding, keybinds,
                   focus, output, stderr, running, today, ticks>>

Sizes == {"Small", "Medium", "Large"}

SizePadding(size) ==
    IF size = "Small" THEN 10 ELSE IF size = "Medium" THEN 30 ELSE 50

\* a radiobutton of the 'Size' submenu: sets button_size, then runs
\* change_button_size
SelectSize(size) ==
    /\ running
    /\ button_size' = size
    /\ padding' = SizePadding(size)
    /\ lastEvent' = [kind |-> "size", n |-> 0]
    /\ clipboardBefore' = clipboard
    /\ lastCall' = NoCall
    /\ UNCHANGED <<clipboard, leading_check, trailing_check, keybinds, focus,
                   output, stderr, running, today, ticks>>

\* File > Quit
close_window ==
    /\ running
    /\ running' = FALSE
    /\ lastEvent' = [kind |-> "quit", n |-> 0]
    /\ clipboardBefore' = clipboard
    /\ lastCall' = NoCall
    /\ UNCHANGED <<clipboard, leading_check, trailing_check, button_size,
                   padding, keybinds, focus, output, stderr, today, ticks>>

\* local midnight passes
Midnight ==
    /\ running
    /\ ticks < MaxTicks
    /\ today' = NextDay(today)
    /\ ticks' = ticks + 1
    /\ lastEvent' = [kind |-> "midnight", n |-> 0]
    /\ clipboardBefore' = clipboard
    /\ lastCall' = NoCall
    /\ UNCHANGED <<clipboard, leading_check, trailing_check, button_size,
                   padding, keybinds, focus, output, stderr, running>>

\* copy_date called directly, outside the buttons and keys
DirectCall(option) ==
    /\ running
    /\ copy_date(option)
    /\ lastEvent' = [kind |-> "call", n |-> option]
    /\ clipboardBefore' = clipboard

Init ==
    /\ clipboard \in {<<>>, OtherText}
    /\ leading_check = FALSE
    /\ trailing_check = FALSE
    /\ button_size = "Medium"
    /\ padding = 35
    /\ keybinds = [k \in {1, 2, 3} |-> k]
    /\ focus = 0
    /\ output = <<>>
    /\ stderr = {}
    /\ running = TRUE
    /\ today \in RefDates
    /\ ticks = 0
    /\ lastEvent = [kind |-> "start", n |-> 0]
    /\ lastCall = NoCall
    /\ clipboardBefore = clipboard

Next ==
    \/ \E n \in {1, 2, 3} : ButtonPress(n)
    \/ \E k \in {1, 2, 3} : KeyPress(k)
    \/ ToggleLeading
    \/ ToggleTrailing
    \/ \E size \in Sizes : SelectSize(size)
    \/ close_window
    \/ Midnight

Spec == Init /\ [][Next]_vars

\* the same program with copy_date also reachable by a direct call
NextCall ==
    \/ Next
    \/ \E option \in CallOptions : DirectCall(option)

SpecCall == Init /\ [][NextCall]_vars

\* one press of a date button on each day of the covered years
YearsCovered == FirstYear .. (FirstYear + YearSpan)

AllDates ==
    { dt \in [y : YearsCovered, m : 1 .. 12, d : 1 .. 31] :
        dt.d <= DaysInMonth(dt.y, dt.m) }

InitDates ==
    /\ clipboard = <<>>
    /\ leading_check = FALSE
    /\ trailing_check = FALSE
    /\ button_size = "Medium"
    /\ padding = 35
    /\ keybinds = [k \in {1, 2, 3} |-> k]
    /\ focus = 0
    /\ output = <<>>
    /\ stderr = {}
    /\ running = TRUE
    /\ today \in AllDates \cup RefDates
    /\ ticks = 0
    /\ lastEvent = [kind |-> "start", n |-> 0]
    /\ lastCall = NoCall
    /\ clipboardBefore = clipboard

NextDates == \E n \in {1, 2, 3} : ButtonPress(n)

SpecDates == InitDates /\ [][NextDates]_vars

(***************************************************************************)
(* Vocabulary of the properties: reading a copied string back              *)
(***************************************************************************)
Digits == {"0", "1", "2", "3", "4", "5", "6", "7", "8", "9"}

DigitVal(c) ==
    CASE c = "0" -> 0 [] c = "1" -> 1 [] c = "2" -> 2 [] c = "3" -> 3
      [] c = "4" -> 4 [] c = "5" -> 5 [] c = "6" -> 6 [] c = "7" -> 7
      [] c = "8" -> 8 [] c = "9" -> 9 [] OTHER -> 0

RECURSIVE NumVal(_)
NumVal(s) == IF s = <<>> THEN 0
             ELSE 10 * NumVal(SubSeq(s, 1, Len(s) - 1)) + DigitVal(s[Len(s)])

AllDigits(s) == \A i \in 1 .. Len(s) : s[i] \in Digits

EnglishMonths ==
    << <<"J","a","n">>, <<"F","e","b">>, <<"M","a","r">>, <<"A","p","r">>,
       <<"M","a","y">>, <<"J","u","n">>, <<"J","u","l">>, <<"A","u","g">>,
       <<"S","e","p">>, <<"O","c","t">>, <<"N","o","v">>, <<"D","e","c">> >>

IsMonth(s) == \E i \in 1 .. 12 : EnglishMonths[i] = s

MonthIndex(s) == CHOOSE i \in 1 .. 12 : EnglishMonths[i] = s

\* a string without its one leading and its one trailing space, if any
Unpad(s) ==
    LET a == IF Len(s) > 0 /\ s[1] = " " THEN Tail(s) ELSE s
    IN  IF Len(a) > 0 /\ a[Len(a)] = " " THEN SubSeq(a, 1, Len(a) - 1) ELSE a

\* <k digits> space <month> space <4 digits>
DayMonYear(s, k) ==
    /\ Len(s) = k + 9
    /\ AllDigits(SubSeq(s, 1, k))
    /\ s[k + 1] = " "
    /\ IsMonth(SubSeq(s, k + 2, k + 4))
    /\ s[k + 5] = " "
    /\ AllDigits(SubSeq(s, k + 6, k + 9))

\* D{1,2} Mon YYYY with the bare day number: no leading zero
BareForm(s) == \E k \in {1, 2} : DayMonYear(s, k) /\ s[1] # "0"

\* DD Mon YYYY: the day always two digits, 01 to 31
TwoDigitForm(s) == DayMonYear(s, 2) /\ NumVal(SubSeq(s, 1, 2)) \in 1 .. 31

WellFormed(s) == \E k \in {1, 2} : DayMonYear(s, k)

DayWidth(s) == IF Len(s) >= 2 /\ s[2] = " " THEN 1 ELSE 2

ParseDate(s) ==
    LET k == DayWidth(s)
    IN  [y |-> NumVal(SubSeq(s, k + 6, k + 9)),
         m |-> MonthIndex(SubSeq(s, k + 2, k + 4)),
         d |-> NumVal(SubSeq(s, 1, k))]

LeapYear(y) == IF y % 100 = 0 THEN y % 400 = 0 ELSE y % 4 = 0

MonthLen(y, m) ==
    <<31, IF LeapYear(y) THEN 29 ELSE 28, 31, 30, 31, 30, 31, 31, 30, 31, 30,
      31>>[m]

CalendarDate(dt) == dt.m \in 1 .. 12 /\ dt.d \in 1 .. MonthLen(dt.y, dt.m)

DaysBeforeMonth == <<0, 31, 59, 90, 120, 151, 181, 212, 243, 273, 304, 334>>

\* the number of the day, counting from 1 Jan of year 1
Ordinal(dt) ==
    LET p == dt.y - 1
    IN  365 * p + (p \div 4) - (p \div 100) + (p \div 400)
          + DaysBeforeMonth[dt.m]
          + (IF dt.m > 2 /\ LeapYear(dt.y) THEN 1 ELSE 0)
          + dt.d

\* the copied string names the day `offset` days from today
NamesDay(s, offset) ==
    /\ WellFormed(s)
    /\ CalendarDate(ParseDate(s))
    /\ Ordinal(ParseDate(s)) = Ordinal(today) + offset

Copied == lastCall.result = "copied"

Failed == lastCall.result = "date_failed"

Invalid == lastCall.result = "invalid"

\* the step is a call of copy_date
CopyStep == lastCall'.result # "none" /\ vars' # vars

(***************************************************************************)
(* Properties                                                              *)
(***************************************************************************)

\* C1: once a copy_date call with a valid option has completed, the
\* clipboard holds exactly the string of that call, a two-digit-day date of
\* the selected day with at most the two spaces around it; nothing of the
\* earlier content is left and nothing accumulates.
ClipboardIsLastDate ==
    Copied =>
        /\ clipboard = output
        /\ TwoDigitForm(Unpad(clipboard))
        /\ NamesDay(Unpad(clipboard), lastCall.option - 2)

ClipboardReplaced ==
    /\ Copied
    /\ Len(clipboardBefore) >= 11
    /\ clipboardBefore # clipboard
    /\ ticks = 1

\* C2: a copy_date call with an option outside 1, 2, 3 reports the invalid
\* argument and leaves the clipboard as it was before the call.
InvalidKeepsClipboard ==
    Invalid => (InvalidArgMsg \in stderr /\ clipboard = clipboardBefore)

\* C3 as stated: the unpadded copied string is D{1,2} Mon YYYY with the bare
\* day number, days 1-9 being one character.
CopiedHasBareDay == Copied => BareForm(Unpad(clipboard))

\* C3: the unpadded copied string is DD Mon YYYY: the day is always two
\* digits, days 1-9 with a leading zero, then a space, an English
\* three-letter month, a space and a four-digit year.
CopiedHasTwoDigitDay == Copied => TwoDigitForm(Unpad(clipboard))

SingleDigitDayCopied ==
    /\ Copied
    /\ clipboard[1] = "0"
    /\ Adjust(lastCall.option, today).d < 10

RolloverCase(dt, option, str) ==
    (Copied /\ today = dt /\ lastCall.option = option) =>
        Unpad(clipboard) = str

\* C4 as stated: the copied date is the day option-2 days from today, with
\* "1 Jan 2017" and "1 Mar 2019" at the year and the February boundary.
CopiedDayBareExamples ==
    /\ Copied => NamesDay(Unpad(clipboard), lastCall.option - 2)
    /\ RolloverCase(Date(2016, 12, 31), 3,
                    <<"1", " ", "J", "a", "n", " ", "2", "0", "1", "7">>)
    /\ RolloverCase(Date(2017, 1, 1), 1,
                    <<"3", "1", " ", "D", "e", "c", " ", "2", "0", "1", "6">>)
    /\ RolloverCase(Date(2016, 2, 28), 3,
                    <<"2", "9", " ", "F", "e", "b", " ", "2", "0", "1", "6">>)
    /\ RolloverCase(Date(2019, 2, 28), 3,
                    <<"1", " ", "M", "a", "r", " ", "2", "0", "1", "9">>)

\* C4: the copied date is the calendar date exactly option-2 days from
\* today, across month, year and leap-day boundaries: 2016-12-31 Tomorrow
\* gives "01 Jan 2017", 2017-01-01 Yesterday "31 Dec 2016", 2016-02-28
\* Tomorrow "29 Feb 2016" and 2019-02-28 Tomorrow "01 Mar 2019".
CopiedDayIsOffsetDay ==
    /\ Copied => NamesDay(Unpad(clipboard), lastCall.option - 2)
    /\ RolloverCase(Date(2016, 12, 31), 3,
                    <<"0", "1", " ", "J", "a", "n", " ", "2", "0", "1", "7">>)
    /\ RolloverCase(Date(2017, 1, 1), 1,
                    <<"3", "1", " ", "D", "e", "c", " ", "2", "0", "1", "6">>)
    /\ RolloverCase(Date(2016, 2, 28), 3,
                    <<"2", "9", " ", "F", "e", "b", " ", "2", "0", "1", "6">>)
    /\ RolloverCase(Date(2019, 2, 28), 3,
                    <<"0", "1", " ", "M", "a", "r", " ", "2", "0", "1", "9">>)

YearRolledOver ==
    /\ Copied
    /\ today = Date(2016, 12, 31)
    /\ lastCall.option = 3
    /\ clipboard = <<"0", "1", " ", "J", "a", "n", " ", "2", "0", "1", "7">>

\* C5: the copied string is (a space if the leading flag is on) + the base
\* date + (a space if the trailing flag is on): its length is the base
\* length plus the number of flags on, each flag acts alone, and with both
\* off the string is the base date.
SpacingComposes ==
    Copied =>
        LET b  == DropLast(DateCmd(lastCall.option, today))
            on == (IF leading_check THEN 1 ELSE 0)
                    + (IF trailing_check THEN 1 ELSE 0)
        IN  /\ clipboard = (IF leading_check THEN <<" ">> ELSE <<>>) \o b
                              \o (IF trailing_check THEN <<" ">> ELSE <<>>)
            /\ Len(clipboard) = Len(b) + on
            /\ (~leading_check /\ ~trailing_check) => clipboard = b

LeadingOnlyCopied ==
    /\ Copied
    /\ leading_check
    /\ ~trailing_check
    /\ Len(clipboard) = 12

\* C6: both spacing flags start off; each copy pads by the values the flags
\* have when it runs; a toggle alone leaves the clipboard as it is.
FlagsReadAtCopy ==
    /\ ~leading_check /\ ~trailing_check
    /\ [][/\ lastEvent'.kind \in {"leading", "trailing"} =>
                clipboard' = clipboard
          /\ (CopyStep /\ lastCall'.result = "copied") =>
                /\ (clipboard'[1] = " ") <=> leading_check
                /\ (clipboard'[Len(clipboard')] = " ") <=> trailing_check
                /\ UNCHANGED <<leading_check, trailing_check>>]_vars

CopiedAfterToggle ==
    /\ Copied
    /\ trailing_check
    /\ ~leading_check
    /\ Len(clipboardBefore) = 11
    /\ Len(clipboard) = 12

\* C7: a copy repeated with the same valid option, with no toggle and no
\* midnight in between, leaves the clipboard content as the first copy made
\* it.
RepeatedCopySame ==
    [][(Copied /\ CopyStep /\ lastCall' = lastCall) =>
            clipboard' = clipboard]_vars

CopiedTwice ==
    /\ Copied
    /\ clipboardBefore = clipboard
    /\ leading_check

\* C8 as stated: a copy_date call changes the clipboard and nothing else of
\* the process state.
CopyChangesOnlyClipboard ==
    [][CopyStep =>
          UNCHANGED <<leading_check, trailing_check, button_size, padding,
                      keybinds, focus, output, stderr, running>>]_vars

\* C8: a copy_date call leaves the two spacing flags, the button size and
\* the key bindings as they were, for every option; beside the clipboard a
\* call with a valid option moves the keyboard focus to its button and keeps
\* the process running, and a call with an invalid option ends the process.
CopyKeepsConfiguration ==
    [][CopyStep =>
          /\ UNCHANGED <<leading_check, trailing_check, button_size, padding,
                         keybinds>>
          /\ lastCall'.option \in {1, 2, 3} =>
                (focus' = lastCall'.option /\ running')
          /\ lastCall'.option \notin {1, 2, 3} =>
                (focus' = focus /\ ~running')]_vars

CopiedWithConfiguration ==
    /\ Copied
    /\ trailing_check
    /\ button_size = "Large"
    /\ focus = 3
    /\ lastEvent.kind = "call"

\* C9: every button press and every key press makes one copy_date call with
\* the option of its number, 1, 2 or 3; button N and key N copy the date of
\* the same day N-2; the invalid-argument branch is never taken.
UISelectsValidDay ==
    /\ InvalidArgMsg \notin stderr
    /\ ~Invalid
    /\ lastEvent.kind \in {"button", "key"} =>
          /\ lastCall.option = lastEvent.n
          /\ lastCall.option \in {1, 2, 3}
          /\ Copied => NamesDay(Unpad(clipboard), lastEvent.n - 2)
    /\ lastEvent.kind \notin {"button", "key"} => lastCall = NoCall

KeyThreeCopied ==
    /\ Copied
    /\ lastEvent = [kind |-> "key", n |-> 3]
    /\ focus = 3

\* C10: when the date command fails, the call ends with the clipboard
\* empty: the clear has happened, no write follows, and what the clipboard
\* held before the call is gone.
FailedQueryLeavesEmpty ==
    Failed => (clipboard = <<>> /\ CalledProcessErrorMsg \in stderr)

FailedQueryLostDate ==
    /\ Failed
    /\ Len(clipboardBefore) >= 11
    /\ clipboard = <<>>

====
